---- MODULE Spec2Model ----
\* Access control of the v-sftp server: the permission bitmask, the sandboxed
\* path resolution and the request handlers of handlers.go, over a model of
\* the host filesystem.  Strings are sequences of one-character strings, so
\* that cleaning, joining and prefix tests are computed character by
\* character as the Go standard library computes them on a unix build.
EXTENDS Integers, Sequences, FiniteSets, TLC

VARIABLES
    user,   \* user[s]: the User record held by session s's SftpHandler (h.user)
    fs,     \* the host filesystem: absolute clean path -> entry
    last,   \* the request served last: what was asked, the steps taken, the reply
    arg,    \* input of the function under test (function-level specifications)
    res,    \* its result
    store,  \* the user directory: the row of sftp_users the connection asks for
    conn    \* the SSH connection: handshake, bound identity, channels

vars == <<user, fs, last, arg, res, store, conn>>

----------------------------------------------------------------------------
\* Strings (package strings)

Sep == "/"
Dot == <<".">>
DotDot == <<".", ".">>

HasPrefix(s, prefix) ==
    Len(s) >= Len(prefix) /\ SubSeq(s, 1, Len(prefix)) = prefix

TrimPrefix(s, prefix) ==
    IF HasPrefix(s, prefix) THEN SubSeq(s, Len(prefix) + 1, Len(s)) ELSE s

IsSpace(c) == c \in {" ", "\t"}

RECURSIVE TrimLeft(_)
TrimLeft(s) ==
    IF s # <<>> /\ IsSpace(Head(s)) THEN TrimLeft(Tail(s)) ELSE s

RECURSIVE TrimRight(_)
TrimRight(s) ==
    IF s # <<>> /\ IsSpace(s[Len(s)]) THEN TrimRight(SubSeq(s, 1, Len(s) - 1)) ELSE s

TrimSpace(s) == TrimRight(TrimLeft(s))

\* strings.Split(s, "/"): the elements between separators, empty ones kept
RECURSIVE SplitAt(_, _, _, _)
SplitAt(s, i, cur, out) ==
    IF i > Len(s) THEN Append(out, cur)
    ELSE IF s[i] = Sep THEN SplitAt(s, i + 1, <<>>, Append(out, cur))
    ELSE SplitAt(s, i + 1, Append(cur, s[i]), out)

Split(s) == SplitAt(s, 1, <<>>, <<>>)

\* strings.Join(elems, "/")
RECURSIVE JoinSegs(_)
JoinSegs(elems) ==
    IF elems = <<>> THEN <<>>
    ELSE IF Len(elems) = 1 THEN elems[1]
    ELSE elems[1] \o <<Sep>> \o JoinSegs(Tail(elems))

----------------------------------------------------------------------------
\* Paths (package path/filepath, unix build: Separator '/', no volume names)

FromSlash(s) == [i \in 1..Len(s) |-> IF s[i] = "/" THEN Sep ELSE s[i]]

VolumeName(s) == <<>>

IsAbs(s) == HasPrefix(s, <<Sep>>)

\* The element pass of filepath.Clean: "" and "." are dropped, ".." removes the
\* element before it, is kept at the front of a relative path and is dropped
\* at the front of a rooted one.
RECURSIVE CleanSegs(_, _, _)
CleanSegs(elems, out, rooted) ==
    IF elems = <<>> THEN out
    ELSE LET e == Head(elems) IN
         IF e = <<>> \/ e = Dot THEN CleanSegs(Tail(elems), out, rooted)
         ELSE IF e = DotDot THEN
              IF out # <<>> /\ out[Len(out)] # DotDot
                  THEN CleanSegs(Tail(elems), SubSeq(out, 1, Len(out) - 1), rooted)
              ELSE IF rooted THEN CleanSegs(Tail(elems), out, rooted)
              ELSE CleanSegs(Tail(elems), Append(out, e), rooted)
         ELSE CleanSegs(Tail(elems), Append(out, e), rooted)

cleanJoin(out, rooted) ==
    IF rooted THEN <<Sep>> \o JoinSegs(out)
    ELSE IF out = <<>> THEN Dot
    ELSE JoinSegs(out)

Clean(path) ==
    IF path = <<>> THEN Dot
    ELSE cleanJoin(CleanSegs(Split(path), <<>>, path[1] = Sep), path[1] = Sep)

\* filepath.Join of two elements: empty elements before the first non-empty
\* one are ignored, the rest is joined with the separator and cleaned.
Join(a, b) ==
    IF a # <<>> THEN Clean(a \o <<Sep>> \o b)
    ELSE IF b # <<>> THEN Clean(b)
    ELSE <<>>

\* filepath.Dir
dirFront(front) == IF front = <<>> THEN <<Sep>> ELSE Clean(front)

dirOf(elems) ==
    IF Len(elems) = 1 THEN Dot
    ELSE dirFront(JoinSegs(SubSeq(elems, 1, Len(elems) - 1)))

Dir(path) == dirOf(Split(path))

\* The elements of a cleaned path ("/" and "." have none)
elemsOf(q) == IF q = <<>> \/ q = Dot THEN <<>> ELSE Split(q)

Elems(p) == elemsOf(IF IsAbs(p) THEN Tail(p) ELSE p)

RECURSIVE CommonLen(_, _)
CommonLen(a, b) ==
    IF a # <<>> /\ b # <<>> /\ Head(a) = Head(b)
        THEN 1 + CommonLen(Tail(a), Tail(b))
        ELSE 0

\* filepath.Rel: the path that joined to basepath gives targpath; an error
\* when one is rooted and the other is not, or when the base would have to
\* be left through a ".." element of its own.
relFrom(be, te, n) ==
    IF n < Len(be) /\ be[n + 1] = DotDot THEN [rel |-> <<>>, err |-> TRUE]
    ELSE [rel |-> JoinSegs([i \in 1..(Len(be) - n) |-> DotDot]
                               \o SubSeq(te, n + 1, Len(te))),
          err |-> FALSE]

relElems(be, te) == relFrom(be, te, CommonLen(be, te))

relClean(base, targ) ==
    IF targ = base THEN [rel |-> Dot, err |-> FALSE]
    ELSE IF IsAbs(base) # IsAbs(targ) THEN [rel |-> <<>>, err |-> TRUE]
    ELSE relElems(Elems(base), Elems(targ))

Rel(basepath, targpath) == relClean(Clean(basepath), Clean(targpath))

----------------------------------------------------------------------------
\* The host filesystem (package os).  An entry is a directory or a regular
\* file; every entry's parent is a directory; "/" always exists.

ModeDir == 493      \* 0755
ModeFile == 420     \* 0644

DirEntry == [kind |-> "dir", size |-> 0, mode |-> ModeDir,
             atime |-> 0, mtime |-> 0, uid |-> 0, gid |-> 0]
FileEntry == [kind |-> "file", size |-> 0, mode |-> ModeFile,
              atime |-> 0, mtime |-> 0, uid |-> 0, gid |-> 0]

Exists(f, p) == p \in DOMAIN f
IsDir(f, p) == Exists(f, p) /\ f[p].kind = "dir"
IsRegular(f, p) == Exists(f, p) /\ f[p].kind = "file"

\* p is q or lies below q
Under(p, q) ==
    \/ p = q
    \/ HasPrefix(p, IF q = <<Sep>> THEN q ELSE q \o <<Sep>>)

Below(f, q) == {p \in DOMAIN f : p # q /\ Under(p, q)}

\* The error of looking up a path that is not there
Missing(f, p) ==
    IF \E q \in DOMAIN f : f[q].kind = "file" /\ Under(p, q) THEN "ENOTDIR"
    ELSE "ENOENT"

\* os.MkdirAll: nil on a directory, ENOTDIR on anything else there; otherwise
\* the parent is made first, then the directory itself.
mkdirIn(up, p) ==
    IF up.err # "nil" THEN up
    ELSE [fs |-> (p :> DirEntry) @@ up.fs, err |-> "nil"]

RECURSIVE MkdirAll(_, _)
MkdirAll(f, p) ==
    IF Exists(f, p) THEN
        IF f[p].kind = "dir" THEN [fs |-> f, err |-> "nil"]
        ELSE [fs |-> f, err |-> "ENOTDIR"]
    ELSE mkdirIn(MkdirAll(f, Dir(p)), p)

\* os.Remove: unlinks a file, removes an empty directory
Remove(f, p) ==
    IF ~Exists(f, p) THEN [fs |-> f, err |-> Missing(f, p)]
    ELSE IF Below(f, p) # {} THEN [fs |-> f, err |-> "ENOTEMPTY"]
    ELSE [fs |-> [q \in DOMAIN f \ {p} |-> f[q]], err |-> "nil"]

\* os.RemoveAll: removes the path and everything below it; nil when absent
RemoveAll(f, p) ==
    [fs |-> [q \in {x \in DOMAIN f : ~Under(x, p)} |-> f[q]], err |-> "nil"]

\* os.Rename (rename(2)): moves the entry with everything below it; a file
\* replaces a file, a directory replaces an empty directory.
Rename(f, old, new) ==
    IF ~Exists(f, old) THEN [fs |-> f, err |-> Missing(f, old)]
    ELSE IF ~IsDir(f, Dir(new)) THEN [fs |-> f, err |-> Missing(f, new)]
    ELSE IF old = new THEN [fs |-> f, err |-> "nil"]
    ELSE IF IsDir(f, old) /\ Under(new, old) THEN [fs |-> f, err |-> "EINVAL"]
    ELSE IF IsDir(f, old) /\ IsRegular(f, new) THEN [fs |-> f, err |-> "ENOTDIR"]
    ELSE IF IsRegular(f, old) /\ IsDir(f, new) THEN [fs |-> f, err |-> "EISDIR"]
    ELSE IF IsDir(f, new) /\ Below(f, new) # {} THEN [fs |-> f, err |-> "ENOTEMPTY"]
    ELSE LET moved == {q \in DOMAIN f : Under(q, old)}
             kept == (DOMAIN f \ moved) \ {new}
             to(q) == new \o SubSeq(q, Len(old) + 1, Len(q))
             dest == {to(q) : q \in moved}
         IN  [fs |-> [x \in kept \cup dest |->
                        IF x \in dest
                            THEN f[CHOOSE q \in moved : to(q) = x]
                            ELSE f[x]],
              err |-> "nil"]

\* os.OpenFile(path, O_WRONLY|O_CREATE|O_TRUNC, 0644)
OpenFile(f, p) ==
    IF IsDir(f, p) THEN [fs |-> f, err |-> "EISDIR"]
    ELSE IF IsRegular(f, p) THEN [fs |-> [f EXCEPT ![p].size = 0], err |-> "nil"]
    ELSE IF ~IsDir(f, Dir(p)) THEN [fs |-> f, err |-> Missing(f, p)]
    ELSE [fs |-> (p :> FileEntry) @@ f, err |-> "nil"]

\* os.Open, os.Stat, os.Lstat: the entry must be there
Lookup(f, p) == IF Exists(f, p) THEN "nil" ELSE Missing(f, p)

\* (*os.File).Readdir(-1): the entries of a directory
Readdir(f, p) ==
    IF IsDir(f, p)
        THEN [names |-> {q \in DOMAIN f : q # p /\ Dir(q) = p}, err |-> "nil"]
        ELSE [names |-> {}, err |-> "ENOTDIR"]

----------------------------------------------------------------------------
\* Permissions (store.go)

PermRead == 1
PermList == 2
PermWrite == 4
PermDelete == 8

\* a & b on unsigned integers
RECURSIVE BitAnd(_, _)
BitAnd(a, b) ==
    IF a = 0 \/ b = 0 THEN 0
    ELSE (a % 2) * (b % 2) + 2 * BitAnd(a \div 2, b \div 2)

\* Faulty variant: the mask compared as a number
hasPermissionAtLeast(u, perm) == u.Perms >= perm

hasPermission(u, perm) == BitAnd(u.Perms, perm) # 0

----------------------------------------------------------------------------
\* Path resolution (handlers.go)

\* getEnvOrDefault("BASE_FS_ROOT", "./data/fs") with the variable unset, and
\* the working directory of the server process
baseRoot == <<".", "/", "d", "a", "t", "a", "/", "f", "s">>
Getwd == <<"/", "s", "r", "v">>

\* filepath.Abs
Abs(path) == IF IsAbs(path) THEN Clean(path) ELSE Join(Getwd, path)

\* The request made relative: separators normalised, volume and leading
\* separators stripped, cleaned; a request for the root is the empty string.
stripVolume(req) ==
    IF VolumeName(req) # <<>> THEN TrimPrefix(req, VolumeName(req)) ELSE req

rootLike(req) ==
    IF req = Dot \/ req = <<Sep>> \/ req = <<"/">> \/ req = <<>> THEN <<>> ELSE req

cleanRequest(requested) ==
    rootLike(Clean(TrimPrefix(TrimPrefix(stripVolume(FromSlash(requested)),
                                         <<Sep>>),
                              <<"/">>)))

\* The root of the session: the configured one, or <base>/<username> when
\* none is configured or the configured one is outside the base.
defaultRoot(u, configured) ==
    IF configured = <<>> THEN Join(baseRoot, u.Username) ELSE configured

outsideBase(relToBase) ==
    relToBase.err \/ HasPrefix(relToBase.rel, DotDot) \/ relToBase.rel = DotDot

rebase(u, baseAbs, userRootAbs) ==
    IF outsideBase(Rel(baseAbs, userRootAbs))
        THEN Join(baseAbs, u.Username)
        ELSE userRootAbs

effectiveRoot(u) ==
    rebase(u, Abs(baseRoot), Abs(defaultRoot(u, FromSlash(TrimSpace(u.RootPath)))))

\* Faulty variants of the containment test: only the error is looked at; a
\* single dot is taken for the parent marker; nothing is refused
escapesOnError(rel) == rel.err

escapesDotPrefix(rel) == rel.err \/ HasPrefix(rel.rel, Dot)

escapesNever(rel) == FALSE

\* The containment test on the joined path's form relative to the root
escapes(rel) ==
    \/ rel.err
    \/ HasPrefix(rel.rel, DotDot)
    \/ HasPrefix(rel.rel, DotDot \o <<Sep>>)

contained(userRootAbs, abs) ==
    IF escapes(Rel(userRootAbs, abs))
        THEN [root |-> userRootAbs, abs |-> <<>>, err |-> "access denied"]
        ELSE [root |-> userRootAbs, abs |-> abs, err |-> "nil"]

joinInRoot(userRootAbs, req) ==
    contained(userRootAbs,
              Abs(IF req = <<>> THEN userRootAbs ELSE Join(userRootAbs, req)))

\* The string computation of resolvePath: the root of the session and the
\* absolute path of the request inside it, or "access denied".
resolveLexical(u, requested) ==
    joinInRoot(effectiveRoot(u), cleanRequest(requested))

\* The sessions, the directory records they were opened for and the client
\* paths they send

Sessions == {1, 2}

alice == <<"a", "l", "i", "c", "e">>
bob == <<"b", "o", "b">>

\* The directory records the sessions were opened for: alice has no root
\* configured, bob has an absolute one inside the base.
Account(s) ==
    IF s = 1 THEN [Username |-> alice, RootPath |-> <<>>]
    ELSE [Username |-> bob,
          RootPath |-> <<"/", "s", "r", "v", "/", "d", "a", "t", "a", "/", "f", "s",
                         "/", "b", "o", "b">>]

Masks == {1, 3, 4, 8, 15}

\* Client paths: the root, an entry, a nested entry, an entry of each tenant
\* reached through the parent, a path two levels above the root.
Requests ==
    { <<"/">>,
      <<"a">>,
      <<"/", "a", "/", "c">>,
      <<".", ".", "/", "b", "o", "b", "/", "a">>,
      <<".", ".", "/", "a", "l", "i", "c", "e", "/", "a">>,
      <<".", ".", "/", ".", ".", "/", "e", "s", "c", "a", "p", "e">> }

\* The string computation for the records and client paths of the sessions,
\* computed once
Roots == {Account(s).RootPath : s \in Sessions}
             \cup {effectiveRoot(Account(s)) : s \in Sessions}

LexicalKeys == {Account(s).Username : s \in Sessions} \X Roots \X Requests

Lexical ==
    [k \in LexicalKeys |->
        resolveLexical([Username |-> k[1], RootPath |-> k[2]], k[3])] @@ <<>>

lexicalOf(u, requested) ==
    IF <<u.Username, u.RootPath, requested>> \in LexicalKeys
        THEN Lexical[<<u.Username, u.RootPath, requested>>]
        ELSE resolveLexical(u, requested)

\* resolvePath: the absolute path of the request inside the user's root, or
\* "access denied".  The root directory is created on the way (a failure to
\* create it is only logged) and written back to the user record.
provisioned(u, l, mk) ==
    [abs |-> l.abs, err |-> l.err, user |-> [u EXCEPT !.RootPath = l.root],
     fs |-> mk.fs, root |-> l.root, mkerr |-> mk.err]

\* Faulty variant: the root directory is not created
provisionNone(u, f, l) == provisioned(u, l, [fs |-> f, err |-> "nil"])

provision(u, f, l) == provisioned(u, l, MkdirAll(f, l.root))

resolvePath(u, f, requested) == provision(u, f, lexicalOf(u, requested))

----------------------------------------------------------------------------
\* Request handlers (handlers.go).  A handler maps the handler's user record,
\* the filesystem and the request to an outcome: the user record and the
\* filesystem afterwards, the error returned, the steps taken in order, the
\* paths whose content or metadata was read, and whether the request was
\* refused for a missing capability.

Outcome(u, f, err, steps, reads, denied) ==
    [user |-> u, fs |-> f, err |-> err, steps |-> steps, reads |-> reads,
     denied |-> denied]

Denied(u, f, steps) == Outcome(u, f, "ErrPermission", steps, {}, TRUE)

\* Fileread: open for download.  r is the resolution of the request path,
\* e the result of os.Open.
readOpened(r, e) ==
    Outcome(r.user, r.fs, e, <<"hasPermission", "resolvePath", "os.Open">>,
            IF e = "nil" THEN {r.abs} ELSE {}, FALSE)

readResolved(r) ==
    IF r.err # "nil"
        THEN Outcome(r.user, r.fs, r.err, <<"hasPermission", "resolvePath">>, {}, FALSE)
        ELSE readOpened(r, Lookup(r.fs, r.abs))

Fileread(u, f, path) ==
    IF ~hasPermission(u, PermRead) THEN Denied(u, f, <<"hasPermission">>)
    ELSE readResolved(resolvePath(u, f, path))

\* Filewrite: open for upload; parents are created, the file is created or
\* truncated.  mk is the result of os.MkdirAll on the parent, o of os.OpenFile.
writeOpened(r, o) ==
    Outcome(r.user, o.fs, o.err,
            <<"hasPermission", "resolvePath", "os.MkdirAll", "os.OpenFile">>, {}, FALSE)

writeParents(r, mk) ==
    IF mk.err # "nil"
        THEN Outcome(r.user, mk.fs, mk.err,
                     <<"hasPermission", "resolvePath", "os.MkdirAll">>, {}, FALSE)
        ELSE writeOpened(r, OpenFile(mk.fs, r.abs))

writeResolved(r) ==
    IF r.err # "nil"
        THEN Outcome(r.user, r.fs, r.err, <<"hasPermission", "resolvePath">>, {}, FALSE)
        ELSE writeParents(r, MkdirAll(r.fs, Dir(r.abs)))

\* Faulty variant: the path is resolved before the capability is checked
FilewriteResolveFirst(u, f, path) ==
    IF ~hasPermission(u, PermWrite)
        THEN Denied(resolvePath(u, f, path).user, resolvePath(u, f, path).fs,
                    <<"resolvePath", "hasPermission">>)
        ELSE writeResolved(resolvePath(u, f, path))

Filewrite(u, f, path) ==
    IF ~hasPermission(u, PermWrite) THEN Denied(u, f, <<"hasPermission">>)
    ELSE writeResolved(resolvePath(u, f, path))

\* The attribute bundle of a Setstat request (sftp.FileStat); NoAttrs is the
\* nil bundle.
NoAttrs == [nil |-> TRUE]
Attrs(mode, atime, mtime, uid, gid, size) ==
    [nil |-> FALSE, Mode |-> mode, Atime |-> atime, Mtime |-> mtime,
     UID |-> uid, GID |-> gid, Size |-> size]

ModeMask == 511     \* 0o777

\* The four steps of Setstat.  Each takes what the steps before left (the
\* filesystem, the error, the steps taken) and does nothing after a failure.
SetMode(prev, p, attrs) ==
    IF prev.err # "nil" \/ attrs.Mode = 0 THEN prev
    ELSE IF ~Exists(prev.fs, p)
        THEN [fs |-> prev.fs, err |-> Missing(prev.fs, p),
              steps |-> Append(prev.steps, "os.Chmod")]
    ELSE [fs |-> [prev.fs EXCEPT ![p].mode = BitAnd(attrs.Mode, ModeMask)],
          err |-> "nil", steps |-> Append(prev.steps, "os.Chmod")]

SetTimes(prev, p, attrs) ==
    IF prev.err # "nil" \/ (attrs.Atime = 0 /\ attrs.Mtime = 0) THEN prev
    ELSE IF ~Exists(prev.fs, p)
        THEN [fs |-> prev.fs, err |-> Missing(prev.fs, p),
              steps |-> Append(prev.steps, "os.Chtimes")]
    ELSE [fs |-> [prev.fs EXCEPT
                    ![p].atime = IF attrs.Atime = 0 THEN attrs.Mtime ELSE attrs.Atime,
                    ![p].mtime = IF attrs.Mtime = 0 THEN attrs.Atime ELSE attrs.Mtime],
          err |-> "nil", steps |-> Append(prev.steps, "os.Chtimes")]

\* The server process runs as the owner of its working directory; user 0
\* is the superuser.
Euid(f) == f[Getwd].uid

\* os.Chown of the entry p: only the superuser may give an entry another
\* owner or group than it has
Chown(f, p, uid, gid) ==
    IF Euid(f) # 0 /\ (uid # f[p].uid \/ gid # f[p].gid)
        THEN [fs |-> f, err |-> "EPERM"]
        ELSE [fs |-> [f EXCEPT ![p].uid = uid, ![p].gid = gid], err |-> "nil"]

\* o is the result of os.Chown
chowned(prev, o) ==
    [fs |-> o.fs, err |-> o.err, steps |-> Append(prev.steps, "os.Chown")]

SetOwner(prev, p, attrs) ==
    IF prev.err # "nil" \/ (attrs.UID = 0 /\ attrs.GID = 0) THEN prev
    ELSE IF ~Exists(prev.fs, p)
        THEN [fs |-> prev.fs, err |-> Missing(prev.fs, p),
              steps |-> Append(prev.steps, "os.Chown")]
    ELSE chowned(prev, Chown(prev.fs, p, attrs.UID, attrs.GID))

\* FileStat.Size is an unsigned integer of SizeBits bits (64 in the program);
\* int64(attrs.Size) reads the same bits as a signed one.
SizeBits == 3

Sizes == 0..(2^SizeBits - 1)

Int64(n) == IF n >= 2^(SizeBits - 1) THEN n - 2^SizeBits ELSE n

\* os.Truncate of the regular file p; a negative size is an invalid argument
Truncate(f, p, size) ==
    IF size < 0 THEN [fs |-> f, err |-> "EINVAL"]
    ELSE [fs |-> [f EXCEPT ![p].size = size], err |-> "nil"]

\* o is the result of os.Truncate
truncated(prev, o) ==
    [fs |-> o.fs, err |-> o.err, steps |-> prev.steps \o <<"os.Stat", "os.Truncate">>]

\* Faulty variant: a size of 0 truncates too
SetSizeZero(prev, p, attrs) ==
    IF prev.err # "nil" THEN prev
    ELSE IF ~Exists(prev.fs, p)
        THEN [fs |-> prev.fs, err |-> Missing(prev.fs, p),
              steps |-> Append(prev.steps, "os.Stat")]
    ELSE IF prev.fs[p].kind = "file"
        THEN truncated(prev, Truncate(prev.fs, p, Int64(attrs.Size)))
    ELSE [fs |-> prev.fs, err |-> "nil", steps |-> Append(prev.steps, "os.Stat")]

SetSize(prev, p, attrs) ==
    IF prev.err # "nil" \/ ~(attrs.Size > 0) THEN prev
    ELSE IF ~Exists(prev.fs, p)
        THEN [fs |-> prev.fs, err |-> Missing(prev.fs, p),
              steps |-> Append(prev.steps, "os.Stat")]
    ELSE IF prev.fs[p].kind = "file"
        THEN truncated(prev, Truncate(prev.fs, p, Int64(attrs.Size)))
    ELSE [fs |-> prev.fs, err |-> "nil", steps |-> Append(prev.steps, "os.Stat")]

\* Faulty variant: ownership is changed before the times
applyAttrsOwnerFirst(f, p, attrs) ==
    SetSize(SetTimes(SetOwner(SetMode([fs |-> f, err |-> "nil", steps |-> <<>>],
                                      p, attrs),
                              p, attrs),
                     p, attrs),
            p, attrs)

\* mode, then times, then ownership, then size; the first failure ends it
applyAttrs(f, p, attrs) ==
    SetSize(SetOwner(SetTimes(SetMode([fs |-> f, err |-> "nil", steps |-> <<>>],
                                      p, attrs),
                              p, attrs),
                     p, attrs),
            p, attrs)

\* The cases of Filecmd's switch.  r is the resolution of the request path;
\* each case checks its capability, then acts; o is the result of the act.
cmdSteps == <<"resolvePath", "hasPermission">>

cmdDone(r, o, steps, reads) ==
    Outcome(r.user, o.fs, o.err, cmdSteps \o steps, reads, FALSE)

\* Faulty variant: Remove gated on Write, as in the earlier revision of FileCmd
cmdRemoveWrite(r) ==
    IF ~hasPermission(r.user, PermWrite) THEN Denied(r.user, r.fs, cmdSteps)
    ELSE cmdDone(r, Remove(r.fs, r.abs), <<"os.Remove">>, {})

cmdRemove(r) ==
    IF ~hasPermission(r.user, PermDelete) THEN Denied(r.user, r.fs, cmdSteps)
    ELSE cmdDone(r, Remove(r.fs, r.abs), <<"os.Remove">>, {})

\* t is the resolution of the target of a Rename
renameResolved(r, t) ==
    IF t.err # "nil"
        THEN Outcome(t.user, t.fs, t.err, cmdSteps \o <<"resolvePath">>, {}, FALSE)
        ELSE cmdDone(t, Rename(t.fs, r.abs, t.abs), <<"resolvePath", "os.Rename">>, {})

\* Faulty variant: the target is joined to the root without being resolved
cmdRenameJoin(r, target) ==
    IF ~hasPermission(r.user, PermWrite) THEN Denied(r.user, r.fs, cmdSteps)
    ELSE cmdDone(r, Rename(r.fs, r.abs, Join(r.root, target)), <<"os.Rename">>, {})

cmdRename(r, target) ==
    IF ~hasPermission(r.user, PermWrite) THEN Denied(r.user, r.fs, cmdSteps)
    ELSE renameResolved(r, resolvePath(r.user, r.fs, target))

cmdMkdir(r) ==
    IF ~hasPermission(r.user, PermWrite) THEN Denied(r.user, r.fs, cmdSteps)
    ELSE cmdDone(r, MkdirAll(r.fs, r.abs), <<"os.MkdirAll">>, {})

cmdRmdir(r) ==
    IF ~hasPermission(r.user, PermDelete) THEN Denied(r.user, r.fs, cmdSteps)
    ELSE cmdDone(r, RemoveAll(r.fs, r.abs), <<"os.RemoveAll">>, {})

setstatApplied(r, o) ==
    cmdDone(r, o, o.steps,
            IF \E i \in DOMAIN o.steps : o.steps[i] = "os.Stat" /\ Exists(r.fs, r.abs)
                THEN {r.abs} ELSE {})

cmdSetstat(r, attrs) ==
    IF ~hasPermission(r.user, PermWrite) THEN Denied(r.user, r.fs, cmdSteps)
    ELSE IF attrs.nil THEN Outcome(r.user, r.fs, "nil", cmdSteps, {}, FALSE)
    ELSE setstatApplied(r, applyAttrs(r.fs, r.abs, attrs))

\* Faulty variant: an unsupported method is answered as done
cmdResolvedSilent(r, method, target, attrs) ==
    IF r.err # "nil" THEN Outcome(r.user, r.fs, r.err, <<"resolvePath">>, {}, FALSE)
    ELSE CASE method = "Remove" -> cmdRemove(r)
           [] method = "Rename" -> cmdRename(r, target)
           [] method = "Mkdir" -> cmdMkdir(r)
           [] method = "Rmdir" -> cmdRmdir(r)
           [] method = "Setstat" -> cmdSetstat(r, attrs)
           [] OTHER -> Outcome(r.user, r.fs, "nil", <<"resolvePath">>, {}, FALSE)

\* Filecmd: Remove, Rename, Mkdir, Rmdir, Setstat; anything else is invalid.
\* The path is resolved first, the capability is checked in the method's case.
cmdResolved(r, method, target, attrs) ==
    IF r.err # "nil" THEN Outcome(r.user, r.fs, r.err, <<"resolvePath">>, {}, FALSE)
    ELSE CASE method = "Remove" -> cmdRemove(r)
           [] method = "Rename" -> cmdRename(r, target)
           [] method = "Mkdir" -> cmdMkdir(r)
           [] method = "Rmdir" -> cmdRmdir(r)
           [] method = "Setstat" -> cmdSetstat(r, attrs)
           [] OTHER -> Outcome(r.user, r.fs, "ErrInvalid", <<"resolvePath">>, {}, FALSE)

Filecmd(u, f, method, path, target, attrs) ==
    cmdResolved(resolvePath(u, f, path), method, target, attrs)

\* Filelist: the entries of a directory.  e is the result of os.Open, d of
\* Readdir.
listRead(r, d) ==
    Outcome(r.user, r.fs, d.err,
            <<"hasPermission", "resolvePath", "os.Open", "Readdir">>,
            {r.abs} \cup d.names, FALSE)

listOpened(r, e) ==
    IF e # "nil"
        THEN Outcome(r.user, r.fs, e, <<"hasPermission", "resolvePath", "os.Open">>,
                     {}, FALSE)
        ELSE listRead(r, Readdir(r.fs, r.abs))

listResolved(r) ==
    IF r.err # "nil"
        THEN Outcome(r.user, r.fs, r.err, <<"hasPermission", "resolvePath">>, {}, FALSE)
        ELSE listOpened(r, Lookup(r.fs, r.abs))

Filelist(u, f, path) ==
    IF ~hasPermission(u, PermList) THEN Denied(u, f, <<"hasPermission">>)
    ELSE listResolved(resolvePath(u, f, path))

\* Lstat and Stat: the metadata of one entry.  e is the result of the os call
\* named by step.
statDone(r, e, step) ==
    Outcome(r.user, r.fs, IF e = "ENOENT" THEN "ErrNotExist" ELSE e,
            <<"hasPermission", "resolvePath", step>>,
            IF e = "nil" THEN {r.abs} ELSE {}, FALSE)

statResolved(r, step) ==
    IF r.err # "nil"
        THEN Outcome(r.user, r.fs, r.err, <<"hasPermission", "resolvePath">>, {}, FALSE)
        ELSE statDone(r, Lookup(r.fs, r.abs), step)

Lstat(u, f, path) ==
    IF ~hasPermission(u, PermList) /\ ~hasPermission(u, PermRead)
        THEN Denied(u, f, <<"hasPermission">>)
    ELSE statResolved(resolvePath(u, f, path), "os.Lstat")

Stat(u, f, path) ==
    IF ~hasPermission(u, PermList) /\ ~hasPermission(u, PermRead)
        THEN Denied(u, f, <<"hasPermission">>)
    ELSE statResolved(resolvePath(u, f, path), "os.Stat")

----------------------------------------------------------------------------
\* Requests served (main.go).  The handler set registered with the request
\* server is Handlers{FileGet, FilePut, FileCmd, FileList: handler}.  The
\* server calls FileGet for Get, FilePut for Put, FileCmd for the commands,
\* FileList.Filelist for List and for Stat, and the Lstat method of the
\* FileList handler for Lstat.

\* Attribute bundles: none, all fields zero, a size of one byte
AttrBundles == {NoAttrs, Attrs(0, 0, 0, 0, 0, 0), Attrs(0, 0, 0, 0, 0, 1)}

FS0 == (<<Sep>> :> DirEntry) @@ (Getwd :> DirEntry)

NoRequest ==
    [sess |-> 0, method |-> "none", path |-> <<>>, target |-> <<>>, err |-> "nil",
     steps |-> <<>>, reads |-> {}, denied |-> FALSE, changed |-> {}, created |-> {}]

\* The paths whose entry differs between two filesystems
Changed(f, g) ==
    {p \in DOMAIN f \cup DOMAIN g :
        \/ ~(p \in DOMAIN f /\ p \in DOMAIN g)
        \/ f[p] # g[p]}

Idle == [fn |-> "none"]

Init ==
    /\ user \in {[s \in Sessions |-> [Username |-> Account(s).Username,
                                      RootPath |-> Account(s).RootPath,
                                      Perms |-> m[s]]] : m \in [Sessions -> Masks]}
    /\ fs \in {FS0, MkdirAll(FS0, Abs(baseRoot)).fs}
    /\ last = NoRequest
    /\ arg = Idle
    /\ res = Idle
    /\ store = Idle
    /\ conn = Idle

\* Session s's handler has served a request with outcome o; the outcome stays
\* in last until the reply is sent
Serve(s, method, path, target, o) ==
    /\ last = NoRequest
    /\ user' = [user EXCEPT ![s] = o.user]
    /\ fs' = o.fs
    /\ last' = [sess |-> s, method |-> method, path |-> path, target |-> target,
                err |-> o.err, steps |-> o.steps, reads |-> o.reads,
                denied |-> o.denied, changed |-> Changed(fs, o.fs),
                created |-> DOMAIN o.fs \ DOMAIN fs]
    /\ UNCHANGED <<arg, res, store, conn>>

Get ==
    \E s \in Sessions, p \in Requests :
        Serve(s, "Get", p, <<>>, Fileread(user[s], fs, p))

Put ==
    \E s \in Sessions, p \in Requests :
        Serve(s, "Put", p, <<>>, Filewrite(user[s], fs, p))

List ==
    \E s \in Sessions, p \in Requests :
        Serve(s, "List", p, <<>>, Filelist(user[s], fs, p))

StatRequest ==
    \E s \in Sessions, p \in Requests :
        Serve(s, "Stat", p, <<>>, Filelist(user[s], fs, p))

LstatRequest ==
    \E s \in Sessions, p \in Requests :
        Serve(s, "Lstat", p, <<>>, Lstat(user[s], fs, p))

RemoveRequest ==
    \E s \in Sessions, p \in Requests :
        Serve(s, "Remove", p, <<>>, Filecmd(user[s], fs, "Remove", p, <<>>, NoAttrs))

RenameRequest ==
    \E s \in Sessions, p \in Requests, t \in Requests :
        Serve(s, "Rename", p, t, Filecmd(user[s], fs, "Rename", p, t, NoAttrs))

MkdirRequest ==
    \E s \in Sessions, p \in Requests :
        Serve(s, "Mkdir", p, <<>>, Filecmd(user[s], fs, "Mkdir", p, <<>>, NoAttrs))

RmdirRequest ==
    \E s \in Sessions, p \in Requests :
        Serve(s, "Rmdir", p, <<>>, Filecmd(user[s], fs, "Rmdir", p, <<>>, NoAttrs))

SetstatRequest ==
    \E s \in Sessions, p \in Requests, a \in AttrBundles :
        Serve(s, "Setstat", p, <<>>, Filecmd(user[s], fs, "Setstat", p, <<>>, a))

SymlinkRequest ==
    \E s \in Sessions, p \in Requests :
        Serve(s, "Symlink", p, <<>>, Filecmd(user[s], fs, "Symlink", p, <<>>, NoAttrs))

LinkRequest ==
    \E s \in Sessions, p \in Requests :
        Serve(s, "Link", p, <<"a">>, Filecmd(user[s], fs, "Link", p, <<"a">>, NoAttrs))

\* The request server sends the reply of the request served
Reply ==
    /\ last # NoRequest
    /\ last' = NoRequest
    /\ UNCHANGED <<user, fs, arg, res, store, conn>>

Next ==
    \/ Get
    \/ Put
    \/ List
    \/ StatRequest
    \/ LstatRequest
    \/ RemoveRequest
    \/ RenameRequest
    \/ MkdirRequest
    \/ RmdirRequest
    \/ SetstatRequest
    \/ SymlinkRequest
    \/ LinkRequest
    \/ Reply

Spec == Init /\ [][Next]_vars

----------------------------------------------------------------------------
\* resolvePath on its own: one call of the handler of one session, for
\* identity records and client paths drawn from bounded sets.

MaxReqLen == 4

Alphabet == {"/", ".", "a", "\\"}

Strings(n) == UNION {[1..k -> Alphabet] : k \in 0..n}

\* Client paths longer than the bound: traversal with either separator and
\* with a drive designator
LongRequests ==
    { <<".", ".", "/", ".", ".", "/", "e", "s", "c", "a", "p", "e">>,
      <<"a", "/", ".", ".", "/", ".", ".", "/", "a">>,
      <<"/", ".", ".", "/", ".", ".", "/", "a">>,
      <<".", ".", "\\", ".", ".", "\\", "a">>,
      <<"C", ":", "\\", ".", ".", "\\", "a">>,
      <<"C", ":", "/", ".", ".", "/", "a">> }

\* Identity records: no root, a blank root, a root outside the base, an
\* absolute root inside the base, the base itself as a relative root
ConfiguredRoots ==
    { <<>>,
      <<" ", "\t">>,
      <<"/", "e", "t", "c">>,
      <<"/", "s", "r", "v", "/", "d", "a", "t", "a", "/", "f", "s", "/", "t", "/", "a">>,
      <<"d", "a", "t", "a", "/", "f", "s">> }

Identities ==
    {[Username |-> alice, RootPath |-> r, Perms |-> 15] : r \in ConfiguredRoots}

\* Host filesystems: nothing of the base there, the base there, alice's
\* default root there, a regular file where alice's default root would be
\* (an upload named after her through an account rooted at the base)
FSBase == MkdirAll(FS0, Abs(baseRoot)).fs
FSHome == MkdirAll(FS0, Join(Abs(baseRoot), alice)).fs
FSBlocked == (Join(Abs(baseRoot), alice) :> FileEntry) @@ FSBase

InitResolve ==
    /\ arg \in {[fn |-> "resolvePath", u |-> u, requested |-> q, fs |-> f] :
                    u \in Identities,
                    q \in Strings(MaxReqLen) \cup LongRequests,
                    f \in {FS0, FSBase, FSHome, FSBlocked}}
    /\ user = [s \in {1} |-> arg.u]
    /\ fs = arg.fs
    /\ res = Idle
    /\ last = NoRequest
    /\ store = Idle
    /\ conn = Idle

\* The first resolution of the session
ResolveCall ==
    /\ arg.fn = "resolvePath"
    /\ res = Idle
    /\ res' = resolvePath(user[1], fs, arg.requested)
    /\ fs' = res'.fs
    /\ user' = [user EXCEPT ![1] = res'.user]
    /\ UNCHANGED <<arg, last, store, conn>>

NextResolve == ResolveCall

SpecResolve == InitResolve /\ [][NextResolve]_vars

----------------------------------------------------------------------------
\* hasPermission on its own: every mask of the Permission type against every
\* capability.

MaskBits == 8

AllMasks == 0..(2^MaskBits - 1)

Capabilities == {PermRead, PermList, PermWrite, PermDelete}

InitPerm ==
    /\ user \in {[s \in {1} |-> [Username |-> alice, RootPath |-> <<>>, Perms |-> m]] :
                    m \in AllMasks}
    /\ arg \in {[fn |-> "hasPermission", perm |-> c] : c \in Capabilities}
    /\ fs = FS0
    /\ res = Idle
    /\ last = NoRequest
    /\ store = Idle
    /\ conn = Idle

PermCall ==
    /\ arg.fn = "hasPermission"
    /\ res = Idle
    /\ res' = [ok |-> hasPermission(user[1], arg.perm)]
    /\ UNCHANGED <<user, fs, arg, last, store, conn>>

NextPerm == PermCall

SpecPerm == InitPerm /\ [][NextPerm]_vars

----------------------------------------------------------------------------
\* The user directory (store.go) and the credentials kept in it

\* sql.NullString
NullString == [Valid |-> FALSE, String |-> <<>>]
Text(t) == [Valid |-> TRUE, String |-> t]

\* bcrypt: a hash is the version, the salt and the digest of salt and
\* password; comparing recomputes the digest from the salt in the hash.
Digest(salt, pw) == <<salt, pw>>

GenerateFromPassword(salt, pw) == <<"$2a$", salt, Digest(salt, pw)>>

CompareHashAndPassword(hash, pass) ==
    IF Len(hash) < 3 THEN "ErrHashTooShort"
    ELSE IF hash[1] # "$2a$" THEN "InvalidHashPrefixError"
    ELSE IF hash[3] = Digest(hash[2], pass) THEN "nil"
    ELSE "ErrMismatchedHashAndPassword"

\* Public keys: the algorithm name and the key data.  Marshal is the wire
\* form, the two as length-prefixed strings.
Key(type, data) == [type |-> type, data |-> data]

Marshal(key) == <<Len(key.type), key.type, Len(key.data), key.data>>

KeyA == Key(<<"e", "d">>, <<"A">>)
KeyB == Key(<<"e", "d">>, <<"B">>)
KeyC == Key(<<"r", "s", "a">>, <<"A">>)

\* base64 texts and the keys they decode to; other texts do not decode
Base64 == [text \in {"QQ==", "Qg=="} |-> IF text = "QQ==" THEN KeyA ELSE KeyB]

Decodes(field) == field \in DOMAIN Base64

\* ssh.ParseAuthorizedKey on a line given as its fields: the field after
\* the first is decoded as the key; failing that, the first field is taken
\* for options and the field after the next is decoded.  The algorithm name
\* written on the line is not looked at.
ParseAuthorizedKey(fields) ==
    IF Len(fields) >= 2 /\ Decodes(fields[2])
        THEN [key |-> Base64[fields[2]], err |-> "nil"]
    ELSE IF Len(fields) >= 3 /\ Decodes(fields[3])
        THEN [key |-> Base64[fields[3]], err |-> "nil"]
    ELSE [key |-> Key(<<>>, <<>>), err |-> "no key found"]

\* A row of sftp_users as scanned into User
Row(name, hash, key, perms, disabled) ==
    [Username |-> name, PasswordHash |-> hash, PublicKey |-> key,
     RootPath |-> <<>>, Perms |-> perms, Disabled |-> disabled]

NoUser == [nil |-> TRUE]

\* FetchUserByUsername: the row of the name, or the error of the query (no
\* such row, or the database failing: ok is whether it answered)
FetchUserByUsername(st, ok, username) ==
    IF ~ok THEN [user |-> NoUser, err |-> "driver"]
    ELSE IF username \in DOMAIN st THEN [user |-> st[username], err |-> "nil"]
    ELSE [user |-> NoUser, err |-> "ErrNoRows"]

----------------------------------------------------------------------------
\* Authentication (main.go, the callbacks of ssh.ServerConfig)

NoPermissions == [nil |-> TRUE]

\* The result of a callback: (*ssh.Permissions, error)
AuthOK(u) == [perms |-> [nil |-> FALSE, username |-> u.Username], err |-> "nil"]
AuthFail(err) == [perms |-> NoPermissions, err |-> err]

\* f is the result of the directory lookup
\* Faulty variant: a disabled account may log in
passwordCheckedDisabled(f, pass) ==
    IF f.err # "nil" THEN AuthFail(f.err)
    ELSE IF ~f.user.PasswordHash.Valid THEN AuthFail("no password set")
    ELSE IF CompareHashAndPassword(f.user.PasswordHash.String, pass) # "nil"
        THEN AuthFail("invalid password")
    ELSE AuthOK(f.user)

passwordChecked(f, pass) ==
    IF f.err # "nil" THEN AuthFail(f.err)
    ELSE IF f.user.Disabled THEN AuthFail("user disabled")
    ELSE IF ~f.user.PasswordHash.Valid THEN AuthFail("no password set")
    ELSE IF CompareHashAndPassword(f.user.PasswordHash.String, pass) # "nil"
        THEN AuthFail("invalid password")
    ELSE AuthOK(f.user)

PasswordCallback(st, ok, name, pass) ==
    passwordChecked(FetchUserByUsername(st, ok, name), pass)

\* Faulty variant: only the key data are compared, not the algorithm
keyComparedData(f, authorizedKey, key) ==
    IF authorizedKey.err # "nil" THEN AuthFail("invalid public key")
    ELSE IF key.data # authorizedKey.key.data THEN AuthFail("public key mismatch")
    ELSE AuthOK(f.user)

\* authorizedKey is the result of parsing the stored line
keyCompared(f, authorizedKey, key) ==
    IF authorizedKey.err # "nil" THEN AuthFail("invalid public key")
    ELSE IF Marshal(key) # Marshal(authorizedKey.key) THEN AuthFail("public key mismatch")
    ELSE AuthOK(f.user)

publicKeyChecked(f, key) ==
    IF f.err # "nil" THEN AuthFail(f.err)
    ELSE IF f.user.Disabled THEN AuthFail("user disabled")
    ELSE IF ~f.user.PublicKey.Valid THEN AuthFail("no public key set")
    ELSE keyCompared(f, ParseAuthorizedKey(f.user.PublicKey.String), key)

PublicKeyCallback(st, ok, name, key) ==
    publicKeyChecked(FetchUserByUsername(st, ok, name), key)

----------------------------------------------------------------------------
\* One SSH connection (main.go, the connection goroutine).  ssh.NewServerConn
\* runs the handshake: it calls the callbacks for the client's attempts and
\* returns the connection once an attempt has succeeded; it fails when the
\* client gives up or runs out of attempts.  Then the channels are served:
\* a "session" channel is accepted, and its "sftp" subsystem request gets a
\* handler made from the row of the bound username as it is then.

MaxAuthTries == 2

Channels == {1, 2}

Passwords == {"pw", "guess"}

\* Stored password hashes: none, the hash of "pw", the password itself
StoredHashes ==
    {NullString, Text(GenerateFromPassword("salt", "pw")), Text(<<"pw">>)}

\* Stored key lines: none, key A bare, key A with a comment, key A with an
\* option and a comment, a line whose key text does not decode
StoredKeys ==
    { NullString,
      Text(<<"ed", "QQ==">>),
      Text(<<"rsa", "QQ==", "alice@host">>),
      Text(<<"no-pty", "ed", "QQ==", "alice@host">>),
      Text(<<"ed", "!!">>) }

PresentedKeys == {KeyA, KeyB, KeyC}

Rows ==
    {Row(alice, h, k, m, d) :
        h \in StoredHashes, k \in StoredKeys, m \in {3, 15}, d \in BOOLEAN}

\* The directory: alice's row, or no row at all
Directories == {(alice :> r) : r \in Rows} \cup {<<>>}

NoHandler == [nil |-> TRUE]

NoAttempt == [method |-> "none"]

Handshaking(name) ==
    [phase |-> "handshake", name |-> name, tries |-> 0, perms |-> NoPermissions,
     auth |-> NoAttempt, bound |-> NoUser,
     chan |-> [ch \in Channels |-> "none"]]

InitConn ==
    /\ store \in Directories
    /\ conn \in {Handshaking(alice), Handshaking(bob)}
    /\ user = [ch \in Channels |-> NoHandler]
    /\ fs = FS0
    /\ last = NoRequest
    /\ arg = Idle
    /\ res = Idle

\* The connection after an attempt: what was tried, what the lookup gave,
\* what the callback returned.  The identity is bound when the callback
\* succeeded and the client proved itself (a password is its own proof, a
\* key needs a valid signature).
attempted(c, method, cred, f, r, proved) ==
    [c EXCEPT !.tries = @ + 1,
              !.auth = [method |-> method, cred |-> cred, seen |-> f, err |-> r.err,
                        perms |-> r.perms],
              !.perms = IF r.err = "nil" /\ proved THEN r.perms ELSE @,
              !.bound = IF r.err = "nil" /\ proved THEN f.user ELSE @]

CanAttempt ==
    /\ conn.phase = "handshake"
    /\ conn.perms = NoPermissions
    /\ conn.tries < MaxAuthTries

PasswordAttempt ==
    \E pass \in Passwords, ok \in BOOLEAN :
        /\ CanAttempt
        /\ conn' = attempted(conn, "password", pass,
                             FetchUserByUsername(store, ok, conn.name),
                             PasswordCallback(store, ok, conn.name, pass), TRUE)
        /\ UNCHANGED <<user, fs, last, arg, res, store>>

PublicKeyAttempt ==
    \E key \in PresentedKeys, ok \in BOOLEAN, signed \in BOOLEAN :
        /\ CanAttempt
        /\ conn' = attempted(conn, "publickey", key,
                             FetchUserByUsername(store, ok, conn.name),
                             PublicKeyCallback(store, ok, conn.name, key), signed)
        /\ UNCHANGED <<user, fs, last, arg, res, store>>

\* Faulty variant: the handshake ends without a successful attempt
handshakeAlways(c) == TRUE

\* ssh.NewServerConn returns the connection
handshakeDone(c) == c.perms # NoPermissions

Handshake ==
    /\ conn.phase = "handshake"
    /\ handshakeDone(conn)
    /\ conn' = [conn EXCEPT !.phase = "open"]
    /\ UNCHANGED <<user, fs, last, arg, res, store>>

\* ssh.NewServerConn fails: the connection is closed
HandshakeFails ==
    /\ conn.phase = "handshake"
    /\ conn.perms = NoPermissions
    /\ conn' = [conn EXCEPT !.phase = "closed"]
    /\ UNCHANGED <<user, fs, last, arg, res, store>>

\* A new channel: a session is accepted, anything else rejected
NewChannel ==
    \E ch \in Channels, type \in {"session", "direct-tcpip"} :
        /\ conn.phase = "open"
        /\ conn.chan[ch] = "none"
        /\ conn' = [conn EXCEPT !.chan[ch] =
                        IF type = "session" THEN "accepted" ELSE "rejected"]
        /\ UNCHANGED <<user, fs, last, arg, res, store>>

\* The username bound to the connection
sessionUser(c) == IF c.perms = NoPermissions THEN <<>> ELSE c.perms.username

\* f is the result of the lookup at the subsystem request
subsystemChan(f) == IF f.err # "nil" THEN "closed" ELSE "sftp"

subsystemHandler(f) == IF f.err # "nil" THEN NoHandler ELSE f.user

\* The "sftp" subsystem request of a session channel
Subsystem ==
    \E ch \in Channels, ok \in BOOLEAN :
        /\ conn.phase = "open"
        /\ conn.chan[ch] = "accepted"
        /\ conn' = [conn EXCEPT !.chan[ch] =
                        subsystemChan(FetchUserByUsername(store, ok, sessionUser(conn)))]
        /\ user' = [user EXCEPT ![ch] =
                        subsystemHandler(FetchUserByUsername(store, ok, sessionUser(conn)))]
        /\ UNCHANGED <<fs, last, arg, res, store>>

\* Any other request on a session channel is refused
OtherRequest ==
    \E ch \in Channels :
        /\ conn.phase = "open"
        /\ conn.chan[ch] = "accepted"
        /\ UNCHANGED vars

\* A request reaches the handler of a channel, which decides on a capability
Decide ==
    \E ch \in Channels, perm \in {PermRead, PermWrite} :
        /\ conn.chan[ch] = "sftp"
        /\ res' = [fn |-> "hasPermission", ch |-> ch, perm |-> perm,
                   ok |-> hasPermission(user[ch], perm)]
        /\ UNCHANGED <<user, fs, last, arg, store, conn>>

\* server.Serve returns: the client ended the SFTP session
EndSession ==
    \E ch \in Channels :
        /\ conn.chan[ch] = "sftp"
        /\ conn' = [conn EXCEPT !.chan[ch] = "closed"]
        /\ UNCHANGED <<user, fs, last, arg, res, store>>

\* The administrator changes the row: other permissions, disabled or
\* enabled, or the row deleted
Administer ==
    /\ store # <<>>
    /\ store' \in {(alice :> [store[alice] EXCEPT !.Perms = 18 - @]),
                   (alice :> [store[alice] EXCEPT !.Disabled = ~@]),
                   <<>>}
    /\ UNCHANGED <<user, fs, last, arg, res, conn>>

NextConn ==
    \/ PasswordAttempt
    \/ PublicKeyAttempt
    \/ Handshake
    \/ HandshakeFails
    \/ NewChannel
    \/ Subsystem
    \/ OtherRequest
    \/ Decide
    \/ EndSession
    \/ Administer

SpecConn == InitConn /\ [][NextConn]_vars

----------------------------------------------------------------------------
\* Paging a listing (handlers.go, fileInfoLister).  The request server keeps
\* the lister of an open directory and an offset; for every read of the
\* directory it calls ListAt with a fresh buffer and advances the offset by
\* the number of entries it got.

MaxEntries == 4

MaxBuf == 3

MaxCalls == MaxEntries + 2

Min(a, b) == IF a < b THEN a ELSE b

\* Faulty variant: the entries are copied from the start of the listing
copiedFromStart(fis, k, offset) == SubSeq(fis, 1, Min(k, Len(fis) - offset))

\* copy(ls, l.fis[offset:]) with a buffer of k entries
copied(fis, k, offset) == SubSeq(fis, offset + 1, offset + Min(k, Len(fis) - offset))

\* entries are the entries copied into a buffer of k
listed(entries, k) ==
    [n |-> Len(entries), entries |-> entries,
     err |-> IF Len(entries) < k THEN "EOF" ELSE "nil"]

ListAt(fis, k, offset) ==
    IF Len(fis) = 0 /\ offset = 0 THEN [n |-> 0, entries |-> <<>>, err |-> "nil"]
    ELSE IF offset >= Len(fis) THEN [n |-> 0, entries |-> <<>>, err |-> "EOF"]
    ELSE listed(copied(fis, k, offset), k)

Listing(n) == [i \in 1..n |-> i]

InitList ==
    /\ arg \in {[fn |-> "ListAt", fis |-> Listing(n), k |-> k] :
                    n \in 0..MaxEntries, k \in 1..MaxBuf}
    /\ res = [offset |-> 0, got |-> <<>>, calls |-> 0, n |-> 0, err |-> "none"]
    /\ last = Idle
    /\ user = [s \in {1} |-> [Username |-> alice, RootPath |-> <<>>, Perms |-> PermList]]
    /\ fs = FS0
    /\ store = Idle
    /\ conn = Idle

\* r is the answer to the call at res.offset
paged(r) ==
    [offset |-> res.offset + r.n, got |-> res.got \o r.entries,
     calls |-> res.calls + 1, n |-> r.n, err |-> r.err]

\* The next read of the directory, until the end was signalled
Page ==
    /\ res.err # "EOF"
    /\ res.calls < MaxCalls
    /\ res' = paged(ListAt(arg.fis, arg.k, res.offset))
    /\ UNCHANGED <<user, fs, last, arg, store, conn>>

\* r is the answer to a call at the offset
probed(offset, r) == [fn |-> "ListAt", offset |-> offset, n |-> r.n, err |-> r.err]

\* A call at any offset
Probe ==
    \E offset \in 0..(MaxEntries + 1) :
        /\ last' = probed(offset, ListAt(arg.fis, arg.k, offset))
        /\ UNCHANGED <<user, fs, arg, res, store, conn>>

NextList == Page \/ Probe

SpecList == InitList /\ [][NextList]_vars

----------------------------------------------------------------------------
\* One Setstat request on the entry "a" of alice's root, for every size the
\* field can carry, on a regular file, a directory or nothing there.

Target == <<"a">>

TargetPath == Join(Join(Abs(baseRoot), alice), Target)

Lengths == {0, 2, 5}

FileOf(n) == [FileEntry EXCEPT !.size = n]

TargetStates ==
    {FSHome, (TargetPath :> DirEntry) @@ FSHome}
        \cup {(TargetPath :> FileOf(n)) @@ FSHome : n \in Lengths}

SetstatBundles ==
    {NoAttrs} \cup {Attrs(mode, 0, mtime, 0, 0, size) :
                        mode \in {0, 384}, mtime \in {0, 7}, size \in Sizes}

InitSetstat ==
    /\ arg \in {[fn |-> "Setstat", path |-> Target, attrs |-> a, fs |-> f,
                 u |-> [Username |-> alice, RootPath |-> <<>>, Perms |-> m]] :
                    a \in SetstatBundles, f \in TargetStates, m \in {3, 4, 15}}
    /\ user = [s \in {1} |-> arg.u]
    /\ fs = arg.fs
    /\ res = Idle
    /\ last = NoRequest
    /\ store = Idle
    /\ conn = Idle

SetstatCall ==
    /\ res = Idle
    /\ res' = Filecmd(user[1], fs, "Setstat", arg.path, <<>>, arg.attrs)
    /\ fs' = res'.fs
    /\ user' = [user EXCEPT ![1] = res'.user]
    /\ UNCHANGED <<arg, last, store, conn>>

NextSetstat == SetstatCall

SpecSetstat == InitSetstat /\ [][NextSetstat]_vars

----------------------------------------------------------------------------
\* The requests of one session, one after the other: every handler method
\* starts with resolvePath on the handler's user record, which the call
\* before has rewritten.

MaxResolves == 3

\* A configured root whose last element ends in a blank
SpacedRoot ==
    <<"/", "s", "r", "v", "/", "d", "a", "t", "a", "/", "f", "s", "/", "t", " ", "/">>

SessionIdentities ==
    {[Username |-> alice, RootPath |-> r, Perms |-> 15] :
        r \in ConfiguredRoots \cup {SpacedRoot}}

InitSession ==
    /\ arg \in {[fn |-> "session", u |-> u, fs |-> f] :
                    u \in SessionIdentities, f \in {FS0, FSHome}}
    /\ user = [s \in {1} |-> arg.u]
    /\ fs = arg.fs
    /\ res = [calls |-> 0, first |-> <<>>, root |-> <<>>, requested |-> <<>>,
              abs |-> <<>>, err |-> "nil"]
    /\ last = NoRequest
    /\ store = Idle
    /\ conn = Idle

\* r is the resolution of the next request, for the client path q
resolvedNext(r, q) ==
    /\ user' = [user EXCEPT ![1] = r.user]
    /\ fs' = r.fs
    /\ res' = [calls |-> res.calls + 1,
               first |-> IF res.calls = 0 THEN r.root ELSE res.first,
               root |-> r.root,
               requested |-> q, abs |-> r.abs, err |-> r.err]

ResolveNext ==
    \E q \in Requests :
        /\ arg.fn = "session"
        /\ res.calls < MaxResolves
        /\ resolvedNext(resolvePath(user[1], fs, q), q)
        /\ UNCHANGED <<arg, last, store, conn>>

NextSession == ResolveNext

SpecSession == InitSession /\ [][NextSession]_vars

----------------------------------------------------------------------------
\* The root of the session for identity records of every kind: usernames
\* that are plain names or path-like, roots inside and outside the base.

Usernames == {alice, DotDot, <<".", ".", "/", "x">>}

\* More configured roots: an entry of the base whose name starts with two
\* dots, a sibling of the base whose name starts with the base's name, a
\* root inside the base written through the base's parent
DottedRoot ==
    <<"/", "s", "r", "v", "/", "d", "a", "t", "a", "/", "f", "s", "/", ".", ".", "x">>

SiblingRoot == <<"/", "s", "r", "v", "/", "d", "a", "t", "a", "/", "f", "s", "x">>

DetourRoot ==
    <<"/", "s", "r", "v", "/", "d", "a", "t", "a", "/", "f", "s", "/", ".", ".",
      "/", "f", "s", "/", "t">>

RootIdentities ==
    {[Username |-> n, RootPath |-> r, Perms |-> 15] :
        n \in Usernames,
        r \in ConfiguredRoots \cup {DottedRoot, SiblingRoot, DetourRoot}}

InitRoot ==
    /\ arg \in {[fn |-> "resolvePath", u |-> u, requested |-> q, fs |-> f] :
                    u \in RootIdentities, q \in Requests, f \in {FS0, FSHome}}
    /\ user = [s \in {1} |-> arg.u]
    /\ fs = arg.fs
    /\ res = Idle
    /\ last = NoRequest
    /\ store = Idle
    /\ conn = Idle

NextRoot == ResolveCall

SpecRoot == InitRoot /\ [][NextRoot]_vars

----------------------------------------------------------------------------
\* One Setstat request with any combination of fields, on a host where the
\* server is the superuser and on one where it is an ordinary user owning
\* the files it serves.

OwnedBy(f, uid) == [p \in DOMAIN f |-> [f[p] EXCEPT !.uid = uid, !.gid = uid]]

OrderStates == TargetStates \cup {OwnedBy(f, 7) : f \in TargetStates}

OrderBundles ==
    {Attrs(mode, atime, 0, uid, 0, size) :
        mode \in {0, 384}, atime \in {0, 9}, uid \in {0, 5}, size \in {0, 1, 2^SizeBits - 1}}

InitOrder ==
    /\ arg \in {[fn |-> "Setstat", path |-> Target, attrs |-> a, fs |-> f,
                 u |-> [Username |-> alice, RootPath |-> <<>>, Perms |-> PermWrite]] :
                    a \in OrderBundles, f \in OrderStates}
    /\ user = [s \in {1} |-> arg.u]
    /\ fs = arg.fs
    /\ res = Idle
    /\ last = NoRequest
    /\ store = Idle
    /\ conn = Idle

NextOrder == SetstatCall

SpecOrder == InitOrder /\ [][NextOrder]_vars

----------------------------------------------------------------------------
\* Properties

\* Capability c is in mask m
HasBit(m, c) == (m \div c) % 2 = 1

\* The effective root of session s
rootOf(s) == lexicalOf(Account(s), <<Sep>>).root

\* /srv/data/fs/alice, written out
AliceHome ==
    <<"/", "s", "r", "v", "/", "d", "a", "t", "a", "/", "f", "s",
      "/", "a", "l", "i", "c", "e">>

\* A call of resolvePath has returned
Resolved == arg.fn = "resolvePath" /\ res # Idle

\* The request served last took a step beyond the capability check and the
\* resolution of its paths
Acted ==
    \E i \in DOMAIN last.steps : last.steps[i] \notin {"hasPermission", "resolvePath"}

\* The place client path q names for session s, taken from the root, and
\* whether that place is outside the root
Place(s, q) == Clean(rootOf(s) \o <<Sep>> \o q)

Escapes(s, q) == ~Under(Place(s, q), rootOf(s))

\* Entries a resolution may create: the root of session s and the
\* directories above it
Provisioned(s, p) ==
    p \in last.created /\ IsDir(fs, p) /\ Under(rootOf(s), p)

\* C1: resolvePath returns an absolute path that is the effective root or
\* lies below it, with no parent marker left relative to the root, or it
\* fails with "access denied"; it never returns a path outside the root.
C1_ResolveContained ==
    Resolved =>
        \/ /\ res.err = "nil"
           /\ IsAbs(res.abs)
           /\ Under(res.abs, res.root)
           /\ \A i \in DOMAIN Elems(res.abs) : Elems(res.abs)[i] # DotDot
           /\ ~Rel(res.root, res.abs).err
           /\ \A i \in DOMAIN Elems(Rel(res.root, res.abs).rel) :
                  Elems(Rel(res.root, res.abs).rel)[i] # DotDot
        \/ /\ res.err = "access denied"
           /\ res.abs = <<>>

\* A request through the parent of the root is refused
C1_Witness ==
    /\ Resolved
    /\ arg.requested = <<".", ".", "/", "a">>
    /\ res.err = "access denied"

C3_CheckBeforeResolve ==
    last.sess # 0 =>
        /\ Head(last.steps) = "hasPermission"
        /\ last.denied =>
               /\ last.steps = <<"hasPermission">>
               /\ last.changed = {}

\* A request refused for a missing capability has created the root directory
C3_RootCreatedOnDenial ==
    /\ last.sess # 0
    /\ last.denied
    /\ rootOf(last.sess) \in last.created

\* C4: a Put by an identity without Write is refused with a permission
\* error and leaves the filesystem as it was: nothing created, nothing
\* truncated.
C4_WriteDenied ==
    (last.method = "Put" /\ ~HasBit(user[last.sess].Perms, PermWrite)) =>
        /\ last.err = "ErrPermission"
        /\ last.denied
        /\ last.changed = {}
        /\ last.created = {}

\* A Put with mask Read|List is refused while the root is not there yet
C4_Witness ==
    /\ last.method = "Put"
    /\ user[last.sess].Perms = 3
    /\ last.err = "ErrPermission"
    /\ ~Exists(fs, rootOf(last.sess))

\* The capability the table assigns to a request
Required(method) ==
    CASE method = "Get" -> PermRead
      [] method = "Put" -> PermWrite
      [] method = "List" -> PermList
      [] method = "Remove" -> PermDelete
      [] method = "Rename" -> PermWrite
      [] method = "Mkdir" -> PermWrite
      [] method = "Rmdir" -> PermDelete
      [] method = "Setstat" -> PermWrite

\* C5: a request takes its filesystem action only if the mask contains the
\* capability the table assigns to it: Read for Get, Write for Put, Mkdir,
\* Rename and Setstat, List for List, Delete for Remove and Rmdir.
C5_ActsOnlyWithCapability ==
    (/\ last.method \in {"Get", "Put", "List", "Remove", "Rename", "Mkdir",
                         "Rmdir", "Setstat"}
     /\ Acted)
        => HasBit(user[last.sess].Perms, Required(last.method))

\* A Remove by an identity holding Delete alone has removed an entry
C5_Witness ==
    /\ last.method = "Remove"
    /\ user[last.sess].Perms = PermDelete
    /\ last.err = "nil"
    /\ last.changed # {}

\* C6 as stated: a Stat or Lstat request is refused for a missing capability
\* exactly when the mask contains neither List nor Read.
C6_StatListOrRead ==
    last.method \in {"Stat", "Lstat"} =>
        (last.denied <=> ~(\/ HasBit(user[last.sess].Perms, PermList)
                           \/ HasBit(user[last.sess].Perms, PermRead)))

\* A Stat by an identity holding Read alone is refused
C6_StatDeniedWithRead ==
    /\ last.method = "Stat"
    /\ user[last.sess].Perms = PermRead
    /\ last.denied

\* C7: hasPermission is true exactly when the capability's bit is set in the
\* mask, for all masks of eight bits; it is false for mask 0, and the bits
\* above Delete do not change the result.
C7_HasPermission ==
    (arg.fn = "hasPermission" /\ res # Idle) =>
        /\ res.ok <=> HasBit(user[1].Perms, arg.perm)
        /\ user[1].Perms = 0 => ~res.ok
        /\ res.ok <=> HasBit(user[1].Perms % 16, arg.perm)

\* Mask 250 (bits 2, 8 and all the higher ones) does not hold Write
C7_Witness ==
    /\ arg.fn = "hasPermission"
    /\ res # Idle
    /\ user[1].Perms = 250
    /\ arg.perm = PermWrite
    /\ ~res.ok

\* C8: resolvePath of "/", of the empty string and of "." succeeds and
\* returns the effective root itself.
C8_RootRequests ==
    (Resolved /\ arg.requested \in {<<"/">>, <<>>, <<".">>}) =>
        /\ res.err = "nil"
        /\ res.abs = res.root
        /\ res.abs = effectiveRoot(arg.u)

\* "." resolves to the root of an identity with no root configured
C8_Witness ==
    /\ Resolved
    /\ arg.requested = <<".">>
    /\ arg.u.RootPath = <<>>
    /\ res.err = "nil"
    /\ res.abs = AliceHome

\* C9: a Rename by an identity holding Write, with the source inside the
\* root and a target that escapes it, fails with "access denied"; os.Rename
\* is not called, nothing is read, nothing is created at the place the target
\* names, and a source entry that is there is left as it was, with the whole
\* filesystem.  (When the root is not there yet, resolving the source creates
\* it with the directories above it.)
C9_RenameEscape ==
    (/\ last.method = "Rename"
     /\ HasBit(user[last.sess].Perms, PermWrite)
     /\ ~Escapes(last.sess, last.path)
     /\ Escapes(last.sess, last.target))
        => /\ last.err = "access denied"
           /\ \A i \in DOMAIN last.steps : last.steps[i] # "os.Rename"
           /\ last.reads = {}
           /\ \A p \in last.changed : Provisioned(last.sess, p)
           /\ Place(last.sess, last.target) \notin last.created
           /\ (/\ Exists(fs, Place(last.sess, last.path))
               /\ Place(last.sess, last.path) \notin last.created)
                  => last.changed = {}

\* Rename of a file that is there to "../../escape" is refused and the file
\* is still there
C9_Witness ==
    /\ last.method = "Rename"
    /\ last.path = <<"a">>
    /\ last.target = <<".", ".", "/", ".", ".", "/", "e", "s", "c", "a", "p", "e">>
    /\ HasBit(user[last.sess].Perms, PermWrite)
    /\ IsRegular(fs, rootOf(last.sess) \o <<Sep, "a">>)
    /\ last.err = "access denied"

\* The identity of the call has no root configured, or a blank one
BlankRoot == arg.fn = "resolvePath" /\ TrimSpace(arg.u.RootPath) = <<>>

\* C10 (as amended): with no root configured, the effective root is the
\* absolute form of <base>/<username>, and after the first resolution that
\* directory exists, created if it was absent, unless it could not be
\* created: then something that is not a directory is in the way, the
\* filesystem is as it was and the resolution goes on all the same.
C10_DefaultRoot ==
    (Resolved /\ BlankRoot) =>
        /\ res.root = AliceHome
        /\ res.root = Abs(baseRoot \o <<Sep>> \o arg.u.Username)
        /\ user[1].RootPath = res.root
        /\ \/ /\ res.mkerr = "nil"
              /\ IsDir(fs, res.root)
           \/ /\ res.mkerr # "nil"
              /\ \E q \in DOMAIN arg.fs : Under(res.root, q) /\ ~IsDir(arg.fs, q)
              /\ fs = arg.fs
              /\ res.err \in {"nil", "access denied"}

\* C10 as stated: after the first resolution the directory exists.
C10_RootExists ==
    (Resolved /\ BlankRoot) =>
        /\ res.root = AliceHome
        /\ IsDir(fs, res.root)

\* The root was absent before the first resolution and is a directory after
C10_Witness ==
    /\ Resolved
    /\ BlankRoot
    /\ ~Exists(arg.fs, AliceHome)
    /\ IsDir(fs, AliceHome)

\* ---- C11 ----
\* The password offered is the one whose hash the row stores
PasswordMatches(row, pass) ==
    /\ row.PasswordHash.Valid
    /\ \E salt \in {"salt", "pepper"} :
          row.PasswordHash.String = GenerateFromPassword(salt, pass)

\* No identity is attached to the connection, and nothing is served on it
Unbound ==
    /\ conn.perms = NoPermissions
    /\ conn.bound = NoUser
    /\ conn.phase # "open"
    /\ \A ch \in Channels : conn.chan[ch] = "none" /\ user[ch] = NoHandler

\* C11: a password attempt succeeds exactly when the lookup returned a row,
\* the row is not disabled, it has a password hash, and the password offered
\* matches that hash; a successful attempt attaches the username of the row,
\* a failed one returns an error and attaches no identity.
C11_PasswordAuth ==
    conn.auth.method = "password" =>
        /\ conn.auth.err = "nil" <=>
              /\ conn.auth.seen.err = "nil"
              /\ ~conn.auth.seen.user.Disabled
              /\ PasswordMatches(conn.auth.seen.user, conn.auth.cred)
        /\ conn.auth.err = "nil" =>
              /\ conn.auth.perms = [nil |-> FALSE, username |-> conn.name]
              /\ conn.perms = conn.auth.perms
        /\ conn.auth.err # "nil" =>
              /\ conn.auth.perms = NoPermissions
              /\ Unbound

\* A password attempt succeeded and the connection was opened
C11_Witness ==
    /\ conn.auth.method = "password"
    /\ conn.auth.err = "nil"
    /\ conn.phase = "open"

\* ---- C12 ----
\* The stored line holds key material that decodes
Parses(line) == \E i \in 1..Len(line) : Decodes(line[i])

\* The key the stored line holds, whatever else the line says
StoredKey(line) == Base64[line[CHOOSE i \in 1..Len(line) : Decodes(line[i])]]

\* C12: for a row that is found, enabled and has a key line that parses, a
\* public-key attempt succeeds exactly when the wire encoding of the key
\* presented equals that of the key stored, whatever comment, option or
\* algorithm text the line carries; for a row that is missing, disabled,
\* without a key line or with a line that does not parse it fails for every
\* key, each with its own error, and attaches no identity.
C12_PublicKeyAuth ==
    conn.auth.method = "publickey" =>
        /\ conn.auth.err = "nil" <=>
              /\ conn.auth.seen.err = "nil"
              /\ ~conn.auth.seen.user.Disabled
              /\ conn.auth.seen.user.PublicKey.Valid
              /\ Parses(conn.auth.seen.user.PublicKey.String)
              /\ Marshal(conn.auth.cred)
                    = Marshal(StoredKey(conn.auth.seen.user.PublicKey.String))
        /\ conn.auth.err = "nil" =>
              conn.auth.perms = [nil |-> FALSE, username |-> conn.name]
        /\ conn.auth.err # "nil" =>
              /\ conn.auth.perms = NoPermissions
              /\ Unbound
        /\ conn.auth.seen.err # "nil" => conn.auth.err = conn.auth.seen.err
        /\ (conn.auth.seen.err = "nil" /\ conn.auth.seen.user.Disabled)
              => conn.auth.err = "user disabled"
        /\ (/\ conn.auth.seen.err = "nil"
            /\ ~conn.auth.seen.user.Disabled
            /\ ~conn.auth.seen.user.PublicKey.Valid)
              => conn.auth.err = "no public key set"
        /\ (/\ conn.auth.seen.err = "nil"
            /\ ~conn.auth.seen.user.Disabled
            /\ conn.auth.seen.user.PublicKey.Valid
            /\ ~Parses(conn.auth.seen.user.PublicKey.String))
              => conn.auth.err = "invalid public key"

\* A key attempt succeeded against a line with an option and a comment
C12_Witness ==
    /\ conn.auth.method = "publickey"
    /\ conn.auth.err = "nil"
    /\ Len(conn.auth.seen.user.PublicKey.String) = 4

\* ---- C13 ----
\* The connection has got as far as the channel loop, a handler was made,
\* or a request was decided by a handler
Dispatching ==
    \/ conn.phase = "open"
    \/ \E ch \in Channels : conn.chan[ch] # "none" \/ user[ch] # NoHandler
    \/ res # Idle

\* C13: nothing is served on a connection (no channel accepted or rejected,
\* no handler made, no request decided) unless one of the two callbacks has
\* returned success for it and its identity is bound; a connection whose
\* attempts have all failed has none of these.
C13_AuthBeforeDispatch ==
    Dispatching =>
        /\ conn.auth.method \in {"password", "publickey"}
        /\ conn.auth.err = "nil"
        /\ conn.perms = conn.auth.perms
        /\ conn.perms # NoPermissions

\* A request was decided by the handler of an authenticated connection
C13_Witness ==
    /\ res # Idle
    /\ conn.auth.err = "nil"
    /\ user[res.ch] # NoHandler

\* ---- C14 ----
\* The attributes of a row that decide requests
Deciding(row) ==
    [Perms |-> row.Perms, Disabled |-> row.Disabled, RootPath |-> row.RootPath]

\* C14: on one connection every handler works with the attributes of the
\* row the connection was authenticated with, and every decision is the one
\* that row gives, whatever happened to the directory since.
C14_SingleSnapshot ==
    /\ \A ch \in Channels :
          user[ch] # NoHandler => Deciding(user[ch]) = Deciding(conn.bound)
    /\ (res # Idle /\ conn.bound # NoUser)
          => res.ok = hasPermission(conn.bound, res.perm)

\* Two channels of one connection whose handlers hold different masks, and
\* a write allowed on one of them that the row authenticated with forbids
C14_TwoSnapshots ==
    /\ user[1] # NoHandler
    /\ user[2] # NoHandler
    /\ user[1].Perms # user[2].Perms
    /\ res # Idle
    /\ res.perm = PermWrite
    /\ res.ok
    /\ ~hasPermission(conn.bound, PermWrite)

\* ---- C15 ----
\* C15: paging an empty listing, the first call (at offset 0) returns no
\* entries and no end-of-sequence, and the second call, at the offset the
\* first one leaves, returns end-of-sequence.
C15_EmptyThenEOF ==
    Len(arg.fis) = 0 =>
        /\ res.calls = 1 => (res.n = 0 /\ res.err = "nil")
        /\ res.calls = 2 => (res.n = 0 /\ res.err = "EOF")

\* The second call on an empty listing is again at offset 0 and again
\* returns no entries without end-of-sequence
C15_NeverEOF ==
    /\ Len(arg.fis) = 0
    /\ res.calls >= 2
    /\ res.offset = 0
    /\ res.err = "nil"

\* ---- C16 ----
\* C16: paging a listing of n >= 1 entries from offset 0 with a buffer of
\* k >= 1, advancing by the number returned: what has been received is the
\* listing up to the offset, in order and without repeats; every call before
\* the end returns at least one entry; the end is signalled by call n + 1 at
\* the latest and then everything has been received; a call at an offset of
\* n or more returns no entries and end-of-sequence.
C16_Paging ==
    Len(arg.fis) >= 1 =>
        /\ res.got = SubSeq(arg.fis, 1, res.offset)
        /\ res.offset <= Len(arg.fis)
        /\ (res.calls > 0 /\ res.err # "EOF") => res.n >= 1
        /\ res.calls > Len(arg.fis) => res.err = "EOF"
        /\ res.err = "EOF" => res.got = arg.fis
        /\ (last # Idle /\ last.offset >= Len(arg.fis))
              => (last.n = 0 /\ last.err = "EOF")

\* A listing longer than the buffer was received whole in several calls,
\* and a call beyond it was answered
C16_Witness ==
    /\ Len(arg.fis) > arg.k
    /\ res.err = "EOF"
    /\ res.calls >= 2
    /\ res.got = arg.fis
    /\ last # Idle
    /\ last.offset >= Len(arg.fis)

\* ---- C17 ----
\* A Setstat request with attributes by an identity holding Write has been
\* answered
SetstatDone ==
    /\ res # Idle
    /\ hasPermission(arg.u, PermWrite)
    /\ ~arg.attrs.nil

\* The length of the target, -1 where there is none
LengthIn(f) == IF Exists(f, TargetPath) THEN f[TargetPath].size ELSE 0 - 1

RefusedForEscape ==
    /\ last.sess # 0
    /\ ~last.denied
    /\ last.err # "nil"
    /\ last.steps # <<>>
    /\ last.steps[Len(last.steps)] = "resolvePath"
    /\ \/ Escapes(last.sess, last.path)
       \/ last.method = "Rename" /\ Escapes(last.sess, last.target)

\* C18: a request refused because its path leaves the root is answered with
\* the same error as a request refused for a missing capability.
C18_SameError ==
    /\ (last.sess # 0 /\ last.denied) => last.err = "ErrPermission"
    /\ RefusedForEscape => last.err = "ErrPermission"

\* A request holding the capability was refused for its path, with an error
\* of its own
C18_Distinct ==
    /\ RefusedForEscape
    /\ last.method = "Get"
    /\ hasPermission(user[last.sess], PermRead)
    /\ last.err = "access denied"

\* ---- C19 ----
\* C19: every resolvePath call of a session computes the root the first call
\* computed, and the RootPath written back is a fixed point of the root
\* computation.
C19_RootFixed ==
    res.calls >= 1 =>
        /\ res.root = res.first
        /\ user[1].RootPath = res.root
        /\ effectiveRoot(user[1]) = user[1].RootPath

\* The second call of a session resolved in another root than the first
C19_RootMoved ==
    /\ res.calls = 2
    /\ res.root # res.first
    /\ IsDir(fs, res.first)
    /\ IsDir(fs, res.root)

\* ---- C20 ----
\* The request served last was a command the handler does not support, for
\* a path inside the root
Unsupported ==
    /\ last.sess # 0
    /\ last.method \in {"Symlink", "Link"}
    /\ ~Escapes(last.sess, last.path)

\* C20 as stated: an unsupported command for a path inside the root is
\* answered with the invalid-operation error, whatever the mask, and nothing
\* is done to the path it names.
C20_InvalidNoAction ==
    Unsupported =>
        /\ last.err = "ErrInvalid"
        /\ ~Acted
        /\ Place(last.sess, last.path) \notin last.changed

\* C20, amended: an unsupported command for a path inside the root is
\* answered with the invalid-operation error, whatever the mask; it takes no
\* step after the resolution of its path, reads nothing, and changes nothing
\* but the root of the session and the directories above it, which the
\* resolution creates when they are missing.
C20_InvalidNoStep ==
    Unsupported =>
        /\ last.err = "ErrInvalid"
        /\ ~last.denied
        /\ last.steps = <<"resolvePath">>
        /\ last.reads = {}
        /\ \A p \in last.changed : Provisioned(last.sess, p)
        /\ Place(last.sess, last.path) # rootOf(last.sess)
              => Place(last.sess, last.path) \notin last.changed

\* A hard link was asked for by a session holding every capability and one
\* holding only Read, and refused as invalid
C20_Witness ==
    /\ Unsupported
    /\ last.method = "Link"
    /\ last.path = <<"a">>
    /\ user[last.sess].Perms \in {1, 15}
    /\ last.err = "ErrInvalid"

\* ---- C21 ----
\* The place the request names, taken from the root the call resolved
Joined == Clean(res.root \o <<Sep>> \o cleanRequest(arg.requested))

FirstSegment(p) == IF Elems(p) = <<>> THEN <<>> ELSE Elems(p)[1]

\* The form of that place relative to the root starts with the segment ".."
LeavesRoot == FirstSegment(Rel(res.root, Joined).rel) = DotDot

\* C21: resolvePath answers "access denied" exactly when the first segment
\* of the joined path relative to the root is "..", as a whole segment; a
\* request whose first segment is a longer name starting with two dots is
\* inside the root and resolves to that name in the root.
C21_WholeSegment ==
    Resolved =>
        /\ res.err = "access denied" <=> LeavesRoot
        /\ res.err = "nil" => res.abs = Joined

\* A request for the entry "..a" of the root was refused
C21_DotsNameDenied ==
    /\ Resolved
    /\ arg.requested = <<".", ".", "a">>
    /\ ~LeavesRoot
    /\ Under(Joined, res.root)
    /\ res.err = "access denied"

\* ---- C22 ----
\* The base, the configured root and the derived root as absolute places
BaseAbs == Clean(Getwd \o <<Sep>> \o baseRoot)

ConfiguredAbs ==
    IF IsAbs(TrimSpace(arg.u.RootPath)) THEN Clean(TrimSpace(arg.u.RootPath))
    ELSE Clean(Getwd \o <<Sep>> \o TrimSpace(arg.u.RootPath))

DerivedAbs == Clean(BaseAbs \o <<Sep>> \o arg.u.Username)

\* C22: for every identity record the root resolvePath computes lies inside
\* the base; a configured root inside the base is kept, one that is not
\* inside it (or none) is replaced by <base>/<username>.
C22_RootInsideBase ==
    Resolved =>
        /\ Under(res.root, BaseAbs)
        /\ (TrimSpace(arg.u.RootPath) # <<>> /\ Under(ConfiguredAbs, BaseAbs))
              => res.root = ConfiguredAbs
        /\ (TrimSpace(arg.u.RootPath) = <<>> \/ ~Under(ConfiguredAbs, BaseAbs))
              => res.root = DerivedAbs

\* The root of an identity named ".." is the parent of the base, and the
\* resolution made sure it exists
C22_RootOutsideBase ==
    /\ Resolved
    /\ arg.u.Username = DotDot
    /\ res.err = "nil"
    /\ ~Under(res.root, BaseAbs)
    /\ Under(BaseAbs, res.root)
    /\ IsDir(fs, res.root)

\* ---- C23 ----
\* The steps a Setstat request took after resolving and checking
Acts == SubSeq(res.steps, Len(cmdSteps) + 1, Len(res.steps))

\* The steps the fields of the request ask for, in the order mode, times,
\* ownership, size; the size step looks at the target and truncates a
\* regular file
Wanted ==
    (IF arg.attrs.Mode # 0 THEN <<"os.Chmod">> ELSE <<>>)
        \o (IF arg.attrs.Atime # 0 \/ arg.attrs.Mtime # 0 THEN <<"os.Chtimes">> ELSE <<>>)
        \o (IF arg.attrs.UID # 0 \/ arg.attrs.GID # 0 THEN <<"os.Chown">> ELSE <<>>)
        \o (IF arg.attrs.Size = 0 THEN <<>>
            ELSE IF IsRegular(arg.fs, TargetPath) THEN <<"os.Stat", "os.Truncate">>
            ELSE <<"os.Stat">>)

\* The step was taken and did not fail
Succeeded(step) ==
    \E i \in DOMAIN Acts : Acts[i] = step /\ (i < Len(Acts) \/ res.err = "nil")

\* What the steps that succeeded make of the target entry, the others
\* leaving their fields as they were
Applied(e) ==
    [kind |-> e.kind,
     mode |-> IF Succeeded("os.Chmod") THEN BitAnd(arg.attrs.Mode, ModeMask) ELSE e.mode,
     atime |-> IF ~Succeeded("os.Chtimes") THEN e.atime
               ELSE IF arg.attrs.Atime = 0 THEN arg.attrs.Mtime ELSE arg.attrs.Atime,
     mtime |-> IF ~Succeeded("os.Chtimes") THEN e.mtime
               ELSE IF arg.attrs.Mtime = 0 THEN arg.attrs.Atime ELSE arg.attrs.Mtime,
     uid |-> IF Succeeded("os.Chown") THEN arg.attrs.UID ELSE e.uid,
     gid |-> IF Succeeded("os.Chown") THEN arg.attrs.GID ELSE e.gid,
     size |-> IF Succeeded("os.Truncate") THEN arg.attrs.Size ELSE e.size]

\* C23: Setstat takes its steps in the order mode, times, ownership, size;
\* when a step fails the request returns the error of that step and takes
\* none of the later steps, and what the earlier steps changed stays changed.
C23_SetstatOrder ==
    (res # Idle /\ arg.fn = "Setstat" /\ hasPermission(arg.u, PermWrite)
        /\ ~arg.attrs.nil) =>
        /\ Len(Acts) <= Len(Wanted)
        /\ Acts = SubSeq(Wanted, 1, Len(Acts))
        /\ res.err = "nil" => Acts = Wanted
        /\ res.err # "nil" =>
              /\ Acts # <<>>
              /\ res.err =
                    IF ~Exists(arg.fs, TargetPath) THEN Missing(arg.fs, TargetPath)
                    ELSE IF Acts[Len(Acts)] = "os.Chown" THEN "EPERM"
                    ELSE IF Acts[Len(Acts)] = "os.Truncate" THEN "EINVAL"
                    ELSE "none"
        /\ Exists(arg.fs, TargetPath) =>
              (Exists(fs, TargetPath) /\ fs[TargetPath] = Applied(arg.fs[TargetPath]))
        /\ ~Exists(arg.fs, TargetPath) => ~Exists(fs, TargetPath)

\* The change of owner was refused after the mode and the times had been
\* set; the size asked for was not applied
C23_Witness ==
    /\ res # Idle
    /\ arg.fn = "Setstat"
    /\ Acts = <<"os.Chmod", "os.Chtimes", "os.Chown">>
    /\ res.err = "EPERM"
    /\ arg.attrs.Size > 0
    /\ IsRegular(fs, TargetPath)
    /\ fs[TargetPath].mode = BitAnd(arg.attrs.Mode, ModeMask)
    /\ fs[TargetPath].mode # arg.fs[TargetPath].mode
    /\ fs[TargetPath].atime = arg.attrs.Atime
    /\ fs[TargetPath].size = arg.fs[TargetPath].size
    /\ fs[TargetPath].size # arg.attrs.Size

====
